---- MODULE Spec2Model ----
(***************************************************************************)
(* A model of mmbot/mmbot.py (class MaliciousMacroBot).                    *)
(*                                                                         *)
(* The module holds several specifications over one set of variables:      *)
(*   SpecFeat   get_vba_features applied to macro texts                    *)
(*   SpecTop    get_top_vba_features applied to feature rows               *)
(*   SpecPred   train / load_model / mmb_predict of one object             *)
(*   SpecData   load_model_data run again and again over a corpus on disk  *)
(*   SpecStore  load_model, save_model and mmb_init_model over the stores  *)
(* A specification leaves the variables of the other parts at their idle   *)
(* values.                                                                 *)
(*                                                                         *)
(* Texts are sequences of one-character strings, so that slicing,          *)
(* splitting and counting are computed as the Python code computes them.   *)
(* Floating point values are kept as integers in thousandths ("milli").    *)
(***************************************************************************)
EXTENDS Integers, Sequences, FiniteSets, TLC

VARIABLES
    vb,          \* SpecFeat: the text handed to get_vba_features
    feat,        \* SpecFeat: <<the Series it returned>>, or <<>> before the call
    tsample,     \* SpecTop: the sample row handed to get_top_vba_features
    ttop,        \* SpecTop: its parameter top
    tres,        \* SpecTop: <<the result>>, or <<>> before the call
    origin,      \* SpecPred: "none", or how the object got its model: "built" or "loaded"
    features,    \* SpecPred: self.features
    model_cntvect,      \* SpecPred: the vocabulary list of self.model_cntvect
    model_tfidf_trans,  \* SpecPred: the idf weights of self.model_tfidf_trans
    cls,         \* SpecPred: self.cls, as the set of feature rows it labels malicious
    saved_model, \* SpecPred: <<what save_model wrote to modeldata.pickle>>, or <<>>
    complete_result,    \* SpecPred: <<the rows mmb_predict returned last>>, or <<>>
    disk,        \* store: what every path of the corpus holds
    modeldata,   \* store: self.modeldata: <<a DataFrame>>, or <<>> for None
    retain_sample_contents,  \* store: self.retain_sample_contents
    modeldata_pickle,        \* store: the file modeldata.pickle
    modeldata_pickle_gz,     \* store: the file modeldata.pickle.gz
    last,        \* store: the record of the last call
    unchanged_since_load,    \* store: load_model_data completed and nothing was done since
    modeldata_features,      \* store: <<the cnt_ and tfidf_ columns get_language_features
                             \*         joined to self.modeldata>>, or <<>>
    sample_input,  \* SpecInput: the input handed to mmb_predict
    datatype,      \* SpecInput: its parameter datatype
    answer,        \* SpecInput: <<the record of the call>>, or <<>> before the call
    fields,        \* SpecSwap: of every model field of the object, the model version
                   \*           that assigned it and whether it is fitted
    building,      \* SpecSwap: the version the rebuild or load in progress is making
    todo,          \* SpecSwap: the assignments the rebuild or load has yet to make
    reading,       \* SpecSwap: the fields the classify_vba in progress has yet to read
    seen,          \* SpecSwap: the versions it has read so far
    failed         \* SpecSwap: it raised NotFittedError

featVars == <<vb, feat>>
topVars == <<tsample, ttop, tres>>
modelVars == <<origin, features, model_cntvect, model_tfidf_trans, cls, saved_model>>
predVars == <<modelVars, complete_result>>
storeVars == <<disk, modeldata, retain_sample_contents, modeldata_pickle, modeldata_pickle_gz,
               last, unchanged_since_load, modeldata_features>>
inputVars == <<sample_input, datatype, answer>>
swapVars == <<fields, building, todo, reading, seen, failed>>
vars == <<featVars, topVars, predVars, storeVars, inputVars, swapVars>>

\* What an action of one part leaves alone: the variables of the other parts
notFeat == <<topVars, predVars, storeVars, inputVars, swapVars>>
notTop == <<featVars, predVars, storeVars, inputVars, swapVars>>
notPred == <<featVars, topVars, storeVars, inputVars, swapVars>>
notStore == <<featVars, topVars, predVars, inputVars, swapVars>>
notInput == <<featVars, topVars, predVars, storeVars, swapVars>>
notSwap == <<featVars, topVars, predVars, storeVars, inputVars>>

\* An optional value is a sequence of length 0 or 1
None == <<>>
Some(x) == <<x>>

(***************************************************************************)
(* Generic helpers on sequences                                            *)
(***************************************************************************)
Range(s) == {s[i] : i \in DOMAIN s}

RECURSIVE SumSeq(_)
SumSeq(s) == IF s = <<>> THEN 0 ELSE Head(s) + SumSeq(Tail(s))

RECURSIVE Flatten(_)
Flatten(ss) == IF ss = <<>> THEN <<>> ELSE Head(ss) \o Flatten(Tail(ss))

\* str.join: the parts of ss with sep between them
RECURSIVE Join(_, _)
Join(sep, ss) ==
    IF ss = <<>> THEN <<>>
    ELSE IF Len(ss) = 1 THEN Head(ss)
    ELSE Head(ss) \o sep \o Join(sep, Tail(ss))

\* str.count of a single character
CountChar(s, c) == Cardinality({i \in DOMAIN s : s[i] = c})

\* All sequences over S of length at most n
RECURSIVE SeqsUpTo(_, _)
SeqsUpTo(S, n) ==
    IF n = 0 THEN {<<>>}
    ELSE LET shorter == SeqsUpTo(S, n - 1)
         IN  shorter \cup {Append(s, c) : s \in {t \in shorter : Len(t) = n - 1}, c \in S}

(***************************************************************************)
(* Character classes of Python's str and re                                *)
(***************************************************************************)
\* str.strip / str.split() / \s whitespace among the characters of the model
IsSpace(c) == c \in {" ", "\n", "\t"}

\* [a-zA-Z0-9_]
NameChars ==
    {"a", "b", "c", "d", "e", "f", "g", "h", "i", "j", "k", "l", "m", "n", "o",
     "p", "q", "r", "s", "t", "u", "v", "w", "x", "y", "z",
     "A", "B", "C", "D", "E", "F", "G", "H", "I", "J", "K", "L", "M", "N", "O",
     "P", "Q", "R", "S", "T", "U", "V", "W", "X", "Y", "Z",
     "0", "1", "2", "3", "4", "5", "6", "7", "8", "9", "_"}

IsNameChar(c) == c \in NameChars

\* The character class [Sub|Function] of reFunction: one character of the set
FunctionClass == {"S", "u", "b", "|", "F", "n", "c", "t", "i", "o"}

(***************************************************************************)
(* The sentinels of get_vba                                                *)
(***************************************************************************)
NoMacros ==
    <<"N", "o", " ", "V", "B", "A", " ", "M", "a", "c", "r", "o", "s", " ",
      "f", "o", "u", "n", "d">>

ErrorPrefix == <<"E", "r", "r", "o", "r", ":">>

\* vb[0:6]: a slice is cut at the end of the string
Slice06(s) == SubSeq(s, 1, IF Len(s) < 6 THEN Len(s) ELSE 6)

IsSentinel(s) == s = NoMacros \/ Slice06(s) = ErrorPrefix

(***************************************************************************)
(* get_entropy: scipy.stats.entropy of value_counts() / len                *)
(***************************************************************************)
\* 1000 * ln(k), rounded, for k = 1..40
LnMilli ==
    <<0, 693, 1099, 1386, 1609, 1792, 1946, 2079, 2197, 2303, 2398, 2485,
      2565, 2639, 2708, 2773, 2833, 2890, 2944, 2996, 3045, 3091, 3135, 3178,
      3219, 3258, 3296, 3332, 3367, 3401, 3434, 3466, 3497, 3526, 3555, 3584,
      3611, 3638, 3664, 3689>>

\* value_counts: how often each distinct value occurs
ValueCount(values, v) == Cardinality({i \in DOMAIN values : values[i] = v})

\* -sum p ln p with p = c / N, which is ln N - (sum c ln c) / N; 0 for no values
get_entropy(values) ==
    LET n == Len(values)
        distinct == Range(values)
        RECURSIVE SumCLnC(_)
        SumCLnC(D) ==
            IF D = {} THEN 0
            ELSE LET v == CHOOSE x \in D : TRUE
                     c == ValueCount(values, v)
                 IN  c * LnMilli[c] + SumCLnC(D \ {v})
    IN  IF n = 0 THEN 0 ELSE (n * LnMilli[n] - SumCLnC(distinct)) \div n

(***************************************************************************)
(* str.split(' '), list(str), str.splitlines, str.strip                    *)
(***************************************************************************)
\* vb.split(sep) for a one-character sep: empty parts are kept
RECURSIVE SplitOn(_, _)
SplitOn(s, sep) ==
    IF \A i \in DOMAIN s : s[i] # sep THEN <<s>>
    ELSE LET k == CHOOSE i \in DOMAIN s : s[i] = sep /\ \A j \in 1..(i - 1) : s[j] # sep
         IN  <<SubSeq(s, 1, k - 1)>> \o SplitOn(SubSeq(s, k + 1, Len(s)), sep)

\* list(vb): the characters, each as a one-character string
ListOfChars(s) == [i \in DOMAIN s |-> <<s[i]>>]

\* vb.splitlines(): split at line ends, no empty last line after a final line end
splitlines(s) ==
    IF s = <<>> THEN <<>>
    ELSE IF s[Len(s)] = "\n" THEN SplitOn(SubSeq(s, 1, Len(s) - 1), "\n")
    ELSE SplitOn(s, "\n")

\* len(line.strip()) > 0
NonBlank(line) == \E i \in DOMAIN line : ~IsSpace(line[i])

\* s.strip()
strip(s) ==
    IF ~NonBlank(s) THEN <<>>
    ELSE LET a == CHOOSE i \in DOMAIN s : ~IsSpace(s[i]) /\ \A j \in 1..(i - 1) : IsSpace(s[j])
             b == CHOOSE i \in DOMAIN s : ~IsSpace(s[i]) /\ \A j \in (i + 1)..Len(s) : IsSpace(s[j])
         IN  SubSeq(s, a, b)

RECURSIVE SelectLines(_)
SelectLines(lines) ==
    IF lines = <<>> THEN <<>>
    ELSE (IF NonBlank(Head(lines)) THEN <<Head(lines)>> ELSE <<>>) \o SelectLines(Tail(lines))

(***************************************************************************)
(* reFunction, the pattern compiled in get_vba_features, and its findall.   *)
(* The pattern is: anything, an optional whitespace, ONE character of the  *)
(* class [Sub|Function], whitespace, a name of [a-zA-Z0-9_] characters, an *)
(* opening parenthesis, anything (the parameters), a closing parenthesis.  *)
(* The leading "anything" is greedy, so the match uses the last place of   *)
(* the line where the rest of the pattern matches; the parameters are      *)
(* greedy, so they run to the last closing parenthesis of the line and     *)
(* findall yields at most one match.                                       *)
(***************************************************************************)
\* The end of the longest run of whitespace (or of name characters) that starts at i; i - 1 if none
RECURSIVE RunEnd(_, _, _)
RunEnd(line, i, isSpaceRun) ==
    IF i > Len(line) THEN i - 1
    ELSE IF (isSpaceRun /\ IsSpace(line[i])) \/ (~isSpaceRun /\ IsNameChar(line[i]))
         THEN RunEnd(line, i + 1, isSpaceRun)
         ELSE i - 1

\* Does the pattern from its class character on match with that character at p
ClassMatchAt(line, p) ==
    /\ p \in DOMAIN line
    /\ line[p] \in FunctionClass
    /\ LET e == RunEnd(line, p + 1, TRUE)
           f == RunEnd(line, e + 1, FALSE)
       IN  /\ e >= p + 1
           /\ f >= e + 1
           /\ f + 1 <= Len(line)
           /\ line[f + 1] = "("
           /\ \E j \in (f + 2)..Len(line) : line[j] = ")"

\* findall: <<>> or one pair <<name, parameters>>
reFunction_findall(line) ==
    LET places == {p \in DOMAIN line : ClassMatchAt(line, p)}
    IN  IF places = {} THEN <<>>
        ELSE LET p == CHOOSE x \in places : \A y \in places : y <= x
                 e == RunEnd(line, p + 1, TRUE)
                 f == RunEnd(line, e + 1, FALSE)
                 close == CHOOSE j \in (f + 2)..Len(line) :
                              line[j] = ")" /\ \A k \in (j + 1)..Len(line) : line[k] # ")"
             IN  <<  <<SubSeq(line, e + 1, f), SubSeq(line, f + 2, close - 1)>>  >>

(***************************************************************************)
(* The dict functions: name -> num_params, in insertion order              *)
(***************************************************************************)
DictKeys(d) == [i \in DOMAIN d |-> d[i][1]]
DictValues(d) == [i \in DOMAIN d |-> d[i][2]]

\* functions[k] = v
DictSet(d, k, v) ==
    IF \E i \in DOMAIN d : d[i][1] = k
    THEN [i \in DOMAIN d |-> IF d[i][1] = k THEN <<k, v>> ELSE d[i]]
    ELSE Append(d, <<k, v>>)

\* The loop over the lines: counts the matching lines and fills the dict
RECURSIVE ScanLines(_, _, _)
ScanLines(lines, num_functions, functions) ==
    IF lines = <<>> THEN [num_functions |-> num_functions, functions |-> functions]
    ELSE LET function_name_matches == reFunction_findall(Head(lines))
         IN  IF Len(function_name_matches) > 0
             THEN LET name == function_name_matches[1][1]
                      params == function_name_matches[1][2]
                      num_params == IF Len(strip(params)) <= 0 THEN 0
                                    ELSE CountChar(params, ",") + 1
                  IN  ScanLines(Tail(lines), num_functions + 1,
                                DictSet(functions, name, num_params))
             ELSE ScanLines(Tail(lines), num_functions, functions)

\* a / b as a float, in thousandths
Milli(a, b) == (1000 * a) \div b

(***************************************************************************)
(* get_vba_features(vb): the Series of lexical features                    *)
(***************************************************************************)
get_vba_features(text) ==
    IF text = NoMacros \/ Slice06(text) = ErrorPrefix
    THEN \* functions = 'None' is assigned here but the Series is built from functions_str
         [function_names |-> <<>>,
          vba_avg_param_per_func |-> 0,
          vba_cnt_comments |-> 0,
          vba_cnt_functions |-> 0,
          vba_cnt_loc |-> 0,
          vba_cnt_func_loc_ratio |-> 0,
          vba_cnt_comment_loc_ratio |-> 0,
          vba_entropy_chars |-> 0,
          vba_entropy_words |-> 0,
          vba_entropy_func_names |-> 0,
          vba_mean_loc_per_func |-> 0]
    ELSE LET num_comments == CountChar(text, "'")
             lines == splitlines(text)
             entropy_chars == get_entropy(SplitOn(text, " "))
             entropy_words == get_entropy(ListOfChars(text))
             scan == ScanLines(lines, 0, <<>>)
             num_functions == scan.num_functions
             functions == scan.functions
             loc == Len(SelectLines(lines))
             function_name_str == Flatten(DictKeys(functions))
         IN  [function_names |->
                  IF Len(functions) > 0 THEN Join(<<",", " ">>, DictKeys(functions)) ELSE <<>>,
              vba_avg_param_per_func |->
                  IF Len(functions) > 0
                  THEN Milli(SumSeq(DictValues(functions)), Len(functions)) ELSE 0,
              vba_cnt_comments |-> num_comments,
              vba_cnt_functions |-> num_functions,
              vba_cnt_loc |-> loc,
              vba_cnt_func_loc_ratio |->
                  IF loc > 0 THEN Milli(Len(functions), loc) ELSE 0,
              vba_cnt_comment_loc_ratio |->
                  IF loc > 0 THEN Milli(num_comments, loc) ELSE 0,
              vba_entropy_chars |-> entropy_chars,
              vba_entropy_words |-> entropy_words,
              vba_entropy_func_names |->
                  IF Len(functions) > 0 THEN get_entropy(ListOfChars(function_name_str)) ELSE 0,
              vba_mean_loc_per_func |->
                  IF num_functions <= 0 THEN 1000 * loc ELSE Milli(loc, num_functions)]

(***************************************************************************)
(* SpecFeat: get_vba_features applied to a text                            *)
(***************************************************************************)
\* The longest text drawn over TextAlphabet
MaxTextLen == 4

TextAlphabet == {"a", "b", " ", "\n"}

\* Texts of interest beside the short ones: the sentinels, texts close to
\* them, and macro code with declarations, calls and comments
NamedTexts ==
    {NoMacros,
     ErrorPrefix,
     <<"E", "r", "r", "o", "r", ":", "x">>,
     <<"E", "r", "r", "o", "r">>,
     <<"N", "o", " ", "V", "B", "A">>,
     <<"a", "b", " ", "a", "b">>,
     <<"a", "b", " ", "a", "b", "\n", "a", "b">>,
     <<"a", "a", "a", "a", "a">>,
     <<"S", "u", "b", " ", "x", "(", ")", "\n", "S", "h", "e", "l", "l", "(", "\"",
       "c", "m", "d", "\"", ")", "\n", "E", "n", "d", " ", "S", "u", "b">>,
     <<"P", "r", "i", "n", "t", " ", "f", "o", "o", "(", "x", ")">>,
     <<"S", "u", "b", " ", "f", "(", "a", ",", "b", ")", "\n",
       "S", "u", "b", " ", "f", "(", ")", "\n", "'", "c">>,
     <<"F", "u", "n", "c", "t", "i", "o", "n", " ", "g", "(", "a", ")", "\n", "\n",
       "S", "u", "b", " ", "h", "(", ")">>}

FeatTexts == NamedTexts \cup SeqsUpTo(TextAlphabet, MaxTextLen)

\* The other parts' variables at rest
IdleFeat == vb = <<>> /\ feat = None

InitFeat == vb \in FeatTexts /\ feat = None

\* feat = self.get_vba_features(vb)
GetVbaFeatures ==
    /\ feat = None
    /\ feat' = Some(get_vba_features(vb))
    /\ UNCHANGED <<vb, notFeat>>

NextFeat == GetVbaFeatures


\* str.split() without a separator: the runs of non-whitespace characters
RECURSIVE WhitespaceSplit(_)
WhitespaceSplit(s) ==
    IF ~NonBlank(s) THEN <<>>
    ELSE LET a == CHOOSE i \in DOMAIN s : ~IsSpace(s[i]) /\ \A j \in 1..(i - 1) : IsSpace(s[j])
             b == CHOOSE i \in a..Len(s) :
                      /\ \A j \in a..i : ~IsSpace(s[j])
                      /\ (i = Len(s) \/ IsSpace(s[i + 1]))
         IN  <<SubSeq(s, a, b)>> \o WhitespaceSplit(SubSeq(s, b + 1, Len(s)))

NoneText == <<"N", "o", "n", "e">>

\* C7: on a sentinel input (the text 'No VBA Macros found' or a text starting
\* with 'Error:') get_vba_features returns every numeric lexical feature equal
\* to 0 and function_names equal to the string "None".
C7_SentinelFeatures ==
    (feat # None /\ IsSentinel(vb)) =>
        /\ feat[1].vba_cnt_loc = 0
        /\ feat[1].vba_cnt_comments = 0
        /\ feat[1].vba_cnt_functions = 0
        /\ feat[1].vba_avg_param_per_func = 0
        /\ feat[1].vba_entropy_chars = 0
        /\ feat[1].vba_entropy_words = 0
        /\ feat[1].vba_entropy_func_names = 0
        /\ feat[1].vba_cnt_func_loc_ratio = 0
        /\ feat[1].vba_cnt_comment_loc_ratio = 0
        /\ feat[1].vba_mean_loc_per_func = 0
        /\ feat[1].function_names = NoneText

\* C8: for a non-sentinel text, vba_entropy_chars is the Shannon entropy of the
\* characters of the whole text and vba_entropy_words is the Shannon entropy of
\* its whitespace-split tokens.
C8_EntropyCharsAndWords ==
    (feat # None /\ ~IsSentinel(vb)) =>
        /\ feat[1].vba_entropy_chars = get_entropy(ListOfChars(vb))
        /\ feat[1].vba_entropy_words = get_entropy(WhitespaceSplit(vb))

\* A declaration with the keyword kw at place p of the line: the keyword,
\* whitespace, a name, and a parenthesised parameter list
DeclarationAt(line, p, kw) ==
    /\ p + Len(kw) - 1 <= Len(line)
    /\ SubSeq(line, p, p + Len(kw) - 1) = kw
    /\ LET e == RunEnd(line, p + Len(kw), TRUE)
           f == RunEnd(line, e + 1, FALSE)
       IN  /\ e >= p + Len(kw)
           /\ f >= e + 1
           /\ f + 1 <= Len(line)
           /\ line[f + 1] = "("
           /\ \E j \in (f + 2)..Len(line) : line[j] = ")"

KeywordSub == <<"S", "u", "b">>
KeywordFunction == <<"F", "u", "n", "c", "t", "i", "o", "n">>

\* The line holds a Sub or Function declaration
IsDeclarationLine(line) ==
    \E p \in DOMAIN line :
        DeclarationAt(line, p, KeywordSub) \/ DeclarationAt(line, p, KeywordFunction)

\* The lines of the text that hold a declaration
DeclarationLines(text) ==
    {i \in DOMAIN splitlines(text) : IsDeclarationLine(splitlines(text)[i])}

\* C18: vba_cnt_functions is the number of lines of the text that hold a Sub
\* or Function declaration; a line with neither keyword is never counted and
\* gives no name to function_names.
C18_FunctionDiscovery ==
    (feat # None /\ ~IsSentinel(vb)) =>
        /\ feat[1].vba_cnt_functions = Cardinality(DeclarationLines(vb))
        /\ (DeclarationLines(vb) = {} => feat[1].function_names = <<>>)

\* C19: for a non-sentinel text with loc > 0, vba_cnt_func_loc_ratio is
\* vba_cnt_functions / vba_cnt_loc, declarations that repeat a name included;
\* it is 0 when loc = 0.
C19_FuncLocRatio ==
    (feat # None /\ ~IsSentinel(vb)) =>
        feat[1].vba_cnt_func_loc_ratio =
            IF feat[1].vba_cnt_loc > 0
            THEN Milli(feat[1].vba_cnt_functions, feat[1].vba_cnt_loc)
            ELSE 0

(***************************************************************************)
(* CountVectorizer(vocabulary=vocab_lower, lowercase=True,                 *)
(*                 token_pattern: a word character, then one or more word  *)
(*                 characters or dots, between word boundaries)            *)
(***************************************************************************)
UpperLetters ==
    <<"A", "B", "C", "D", "E", "F", "G", "H", "I", "J", "K", "L", "M", "N", "O",
      "P", "Q", "R", "S", "T", "U", "V", "W", "X", "Y", "Z">>

LowerLetters ==
    <<"a", "b", "c", "d", "e", "f", "g", "h", "i", "j", "k", "l", "m", "n", "o",
      "p", "q", "r", "s", "t", "u", "v", "w", "x", "y", "z">>

\* str.lower of one character
LowerChar(c) ==
    IF \E i \in DOMAIN UpperLetters : UpperLetters[i] = c
    THEN LowerLetters[CHOOSE i \in DOMAIN UpperLetters : UpperLetters[i] = c]
    ELSE c

\* x.lower()
lower(s) == [i \in DOMAIN s |-> LowerChar(s[i])]

\* The end of the longest run of word characters and dots that starts at i; i - 1 if none
RECURSIVE WordDotRunEnd(_, _)
WordDotRunEnd(s, i) ==
    IF i > Len(s) THEN i - 1
    ELSE IF IsNameChar(s[i]) \/ s[i] = "." THEN WordDotRunEnd(s, i + 1)
    ELSE i - 1

\* token_pattern.findall(doc) from position i on: a token starts with a word
\* character at a word boundary, runs over word characters and dots, ends with a
\* word character, and has at least two characters
RECURSIVE TokensFrom(_, _)
TokensFrom(s, i) ==
    IF i > Len(s) THEN <<>>
    ELSE IF IsNameChar(s[i]) /\ (i = 1 \/ ~IsNameChar(s[i - 1]))
         THEN LET r == WordDotRunEnd(s, i + 1)
                  e == CHOOSE k \in i..r : IsNameChar(s[k]) /\ \A j \in (k + 1)..r : s[j] = "."
              IN  IF e >= i + 1
                  THEN <<SubSeq(s, i, e)>> \o TokensFrom(s, e + 1)
                  ELSE TokensFrom(s, i + 1)
         ELSE TokensFrom(s, i + 1)

\* The analyzer of the vectorizer: lowercase, then the tokens
Tokenize(doc) == TokensFrom(lower(doc), 1)

\* model_cntvect.transform([doc]): one count per column; column i is vocabulary[i]
CountRow(vocabulary, doc) ==
    LET tokens == Tokenize(doc)
    IN  [i \in DOMAIN vocabulary |-> Cardinality({k \in DOMAIN tokens : tokens[k] = vocabulary[i]})]

\* model_cntvect.fit_transform(docs): the count matrix, a row per document
CountMatrix(vocabulary, docs) == [d \in DOMAIN docs |-> CountRow(vocabulary, docs[d])]

(***************************************************************************)
(* TfidfTransformer(): smoothed idf, l2-normalised rows                    *)
(***************************************************************************)
\* The integer square root, by Newton's iteration from above
RECURSIVE IsqrtFrom(_, _)
IsqrtFrom(n, x) ==
    LET y == (x + n \div x) \div 2
    IN  IF y >= x THEN x ELSE IsqrtFrom(n, y)

Isqrt(n) == IF n <= 0 THEN 0 ELSE IsqrtFrom(n, n)

\* The smoothed idf of a column found in df of n documents:
\* ln((1 + n) / (1 + df)) + 1, in thousandths
Idf(n, df) == LnMilli[1 + n] - LnMilli[1 + df] + 1000

\* fit: the idf of every column of the count matrix
IdfFit(count_matrix, ncols) ==
    [j \in 1..ncols |->
        Idf(Len(count_matrix),
            Cardinality({d \in DOMAIN count_matrix : count_matrix[d][j] > 0}))]

\* transform: the row times idf, divided by its euclidean norm, in thousandths
TfidfRow(idf, cnt_row) ==
    LET raw == [j \in DOMAIN cnt_row |-> cnt_row[j] * idf[j]]
        norm == Isqrt(SumSeq([j \in DOMAIN raw |-> raw[j] * raw[j]]))
    IN  [j \in DOMAIN raw |-> IF norm = 0 THEN 0 ELSE (1000 * raw[j]) \div norm]

(***************************************************************************)
(* get_top_vba_features(sample, top)                                       *)
(***************************************************************************)
Prefix_cnt == <<"c", "n", "t", "_">>
Prefix_tfidf == <<"t", "f", "i", "d", "f", "_">>

\* ['cnt_' + x for x in names] and ['tfidf_' + x for x in names]
cnt_names(names) == [i \in DOMAIN names |-> Prefix_cnt \o names[i]]
tfidf_names(names) == [i \in DOMAIN names |-> Prefix_tfidf \o names[i]]

\* The position of column name in the list of column names cols
ColumnOf(cols, name) == CHOOSE i \in DOMAIN cols : cols[i] = name

\* feature_name.replace("tfidf_", ...) of a name that starts with "tfidf_"
StripTfidf(name) == SubSeq(name, Len(Prefix_tfidf) + 1, Len(name))

\* sorted(relevantFeatures, key=lambda x: x[1], reverse=True): a stable sort,
\* descending by value; equal values keep their order
RECURSIVE InsertDesc(_, _)
InsertDesc(sorted, x) ==
    IF sorted = <<>> THEN <<x>>
    ELSE IF Head(sorted)[2] >= x[2] THEN <<Head(sorted)>> \o InsertDesc(Tail(sorted), x)
    ELSE <<x>> \o sorted

RECURSIVE SortDesc(_, _)
SortDesc(done, rest) ==
    IF rest = <<>> THEN done ELSE SortDesc(InsertDesc(done, Head(rest)), Tail(rest))

\* The key 'feat_' + str(x) + '_name' as far as it decides the order of two
\* keys: the code points of the decimal digits of x, then that of "_"
KeyCodes(x) ==
    (IF x < 10 THEN <<48 + x>> ELSE <<48 + (x \div 10), 48 + (x % 10)>>) \o <<95>>

RECURSIVE LexLess(_, _)
LexLess(a, b) ==
    IF b = <<>> THEN FALSE
    ELSE IF a = <<>> THEN TRUE
    ELSE IF Head(a) # Head(b) THEN Head(a) < Head(b)
    ELSE LexLess(Tail(a), Tail(b))

\* sorted(names.keys()): the numbers 1..top in the order of their keys
RECURSIVE SortedKeys(_)
SortedKeys(xs) ==
    IF xs = {} THEN <<>>
    ELSE LET m == CHOOSE x \in xs : \A y \in xs \ {x} : LexLess(KeyCodes(x), KeyCodes(y))
         IN  <<m>> \o SortedKeys(xs \ {m})

RECURSIVE SelectNonzero(_, _)
SelectNonzero(row, i) ==
    IF i > Len(row) THEN <<>>
    ELSE (IF row[i] # 0 THEN <<i>> ELSE <<>>) \o SelectNonzero(row, i + 1)

\* A Python value that is a str or a list, with its type
PyStr(s) == [type |-> "str", str |-> s, list |-> <<>>]
PyList(l) == [type |-> "list", str |-> <<>>, list |-> l]

\* int(round(100 * w)) of a weight w in thousandths
Percent(w) == (w + 5) \div 10

\* lines 621-626: nested_top_features as the loop over range(1, top + 1) fills it
nested_entries(result, xs) ==
    [x \in xs |-> [name |-> result[x + 1][1],
                   importance |-> Percent(result[x + 1][2]),
                   cnt |-> result[x + 1][3]]]

\* A mutation of range_from_1: range(0, top)
range_from_0(top) == 0..(top - 1)

\* range(1, (top + 1)): the indexes x of result that are surfaced
range_from_1(top) == 1..top

\* self_features is self.features; sample has the row of cnt_ columns and the row of
\* tfidf_ columns, both in the order of their lists of names in self.features.
\* The result: the flat dictionary as featureprint and feats (feats[x] is
\* feat_x_name, feat_x_importance, feat_x_cnt), the second element of the
\* returned pair as nested, and whether indexing result[x] raised
get_top_vba_features(self_features, sample, top) ==
    LET nonzero == SelectNonzero(sample.tfidf, 1)
        relevantFeatures ==
            [k \in DOMAIN nonzero |->
                LET i == nonzero[k]
                    feature_name == self_features.tfidf_features[i]
                    feature_value == sample.tfidf[i]
                    feature_cnt ==
                        sample.cnt[ColumnOf(self_features.cnt_features,
                                            Prefix_cnt \o StripTfidf(feature_name))]
                IN  <<StripTfidf(feature_name), feature_value, feature_cnt>>]
        \* result[x] of the code is result[x + 1] here
        result == SortDesc(<<>>, relevantFeatures)
        top2 == IF top >= Len(result) THEN Len(result) - 1 ELSE top
        xs == range_from_1(top2)
        raised == \E x \in xs : x + 1 > Len(result)
        names == [x \in xs |-> result[x + 1][1]]
        sorted_names == SortedKeys(xs)
        joined == Join(<<"_">>, [k \in DOMAIN sorted_names |-> names[sorted_names[k]]])
    IN  IF raised
        THEN [raised |-> TRUE, featureprint |-> <<>>, feats |-> <<>>, nested |-> PyStr(<<>>)]
        ELSE [raised |-> FALSE,
              featureprint |-> joined,
              feats |-> [x \in xs |->
                            [name |-> result[x + 1][1],
                             importance |-> result[x + 1][2],
                             cnt |-> result[x + 1][3]]],
              \* line 630 assigns the joined names to nested_top_features
              nested |-> PyStr(joined)]

(***************************************************************************)
(* SpecTop: get_top_vba_features applied to a sample row                   *)
(***************************************************************************)
\* The largest top, and the largest count of a token in a sample
MaxTop == 5
MaxCnt == 2

\* The documents of the training corpus behind the idf weights
TopDocs == 2

\* self.features of the model: the names of the vocabulary columns
TopTokens == << <<"r", "u", "n">>, <<"e", "x", "e", "c">>, <<"s", "h", "e", "l", "l">>,
                <<"w", "s", ".", "s", "h">> >>

TopFeatures ==
    [features |-> TopTokens,
     cnt_features |-> cnt_names(TopTokens),
     tfidf_features |-> tfidf_names(TopTokens)]

\* In how many training documents each token occurs
TopDfs == {<<0, 0, 0, 0>>, <<1, 1, 1, 1>>, <<1, 2, 1, 0>>, <<2, 1, 1, 2>>}

IdleTop == tsample = None /\ ttop = 0 /\ tres = None

InitTop ==
    /\ \E cnt \in [DOMAIN TopTokens -> 0..MaxCnt], df \in TopDfs :
          tsample = Some([cnt |-> cnt,
                          tfidf |-> TfidfRow([j \in DOMAIN df |-> Idf(TopDocs, df[j])], cnt)])
    /\ ttop \in 0..MaxTop
    /\ tres = None

\* tres = self.get_top_vba_features(sample, top)
GetTopVbaFeatures ==
    /\ tsample # None
    /\ tres = None
    /\ tres' = Some(get_top_vba_features(TopFeatures, tsample[1], ttop))
    /\ UNCHANGED <<tsample, ttop, notTop>>

NextTop == GetTopVbaFeatures

\* The places of the sample's row with a nonzero TF-IDF weight
TopNonzero == {i \in DOMAIN tsample[1].tfidf : tsample[1].tfidf[i] # 0}

\* The rank of place i: 1 for the largest weight; of equal weights the one that
\* comes first in the vocabulary ranks first
TopRank(i) ==
    1 + Cardinality({j \in TopNonzero :
                        \/ tsample[1].tfidf[j] > tsample[1].tfidf[i]
                        \/ (tsample[1].tfidf[j] = tsample[1].tfidf[i] /\ j < i)})

TopMin(a, b) == IF a <= b THEN a ELSE b

\* C5: with n features of nonzero TF-IDF weight, get_top_vba_features(sample,
\* top=K) surfaces exactly the features of ranks 2..min(K, n-1)+1, as
\* feat_i_name / feat_i_importance / feat_i_cnt for i = 1..min(K, n-1); the
\* feature of rank 1 is never surfaced; when n <= 1 nothing is surfaced, the
\* featureprint is the empty string, and no error is raised.
C5_TopFeatures ==
    tres # None =>
        LET r == tres[1]
            n == Cardinality(TopNonzero)
            m == TopMin(ttop, n - 1)
        IN  /\ ~r.raised
            /\ DOMAIN r.feats = 1..m
            /\ \A i \in 1..m :
                  \E p \in TopNonzero :
                      /\ TopRank(p) = i + 1
                      /\ r.feats[i].name = TopTokens[p]
                      /\ r.feats[i].importance = tsample[1].tfidf[p]
                      /\ r.feats[i].cnt = tsample[1].cnt[p]
            /\ \A x \in DOMAIN r.feats : \A p \in TopNonzero :
                  TopRank(p) = 1 => r.feats[x].name # TopTokens[p]
            /\ (n <= 1 => r.feats = <<>> /\ r.featureprint = <<>>)

\* A call with more features than top (ranks 2..top+1 surfaced), a call with
\* fewer (ranks 2..n surfaced), and a call with one feature (nothing surfaced)
C5_Witness ==
    /\ tres # None
    /\ ttop = 2
    /\ Cardinality(TopNonzero) = 4
    /\ Len(tres[1].feats) = 2
    /\ \E p \in TopNonzero : TopRank(p) = 3 /\ tres[1].feats[2].name = TopTokens[p]

\* C15: the nested explanation get_top_vba_features returns (stored by
\* classify_vba under result_dictionary['vba_lang_features']) lists every
\* surfaced feature with its name, its count and its importance in whole
\* percentage points; the flat feat_i_importance is the raw weight.
C15_NestedExplanation ==
    (tres # None /\ ~tres[1].raised) =>
        /\ tres[1].nested.type = "list"
        /\ DOMAIN tres[1].nested.list = DOMAIN tres[1].feats
        /\ \A x \in DOMAIN tres[1].feats :
              /\ tres[1].nested.list[x].name = tres[1].feats[x].name
              /\ tres[1].nested.list[x].cnt = tres[1].feats[x].cnt
              /\ tres[1].nested.list[x].importance = Percent(tres[1].feats[x].importance)

(***************************************************************************)
(* SpecPred: one object that builds or loads a model and predicts          *)
(***************************************************************************)
\* The longest batch handed to mmb_predict
MaxBatch == 2

\* The lines of vocab.txt
VocabFile ==
    {<<"S", "h", "e", "l", "l">>, <<"s", "h", "e", "l", "l">>, <<"r", "u", "n">>}

TextShellRun == <<"S", "h", "e", "l", "l", " ", "r", "u", "n">>

TextShell == <<"s", "h", "e", "l", "l">>

\* The macro texts handed to mmb_predict
PredTexts == {NoMacros, TextShellRun, TextShell}

\* self.modeldata of the build: extracted_vba and label of the training samples
TrainDocs ==
    <<[extracted_vba |-> TextShellRun, label |-> "malicious"],
      [extracted_vba |-> NoMacros, label |-> "benign"]>>

\* list(set(...)): the elements of a set in some order
ListsOfSet(S) ==
    {l \in [1..Cardinality(S) -> S] : \A i, j \in DOMAIN l : i # j => l[i] # l[j]}

\* [x.lower() for x in self.features['vocab']], as the set made of it
vocab_lower(vocab) == {lower(x) : x \in vocab}

\* self.get_vba_features(vba) of every text handed to mmb_predict, tabulated
PredVbaFeatures == [t \in PredTexts |-> get_vba_features(t)]

\* model_cntvect.transform of every text handed to mmb_predict, tabulated for
\* every vocabulary list the vectorizer can be made of
PredCounts ==
    [vocabulary \in ListsOfSet(vocab_lower(VocabFile)) |->
        [t \in PredTexts |-> CountRow(vocabulary, t)]]

\* classify_vba, lines 644-657: the row of features of one text under a model
\* (cntvect the vocabulary list of the vectorizer, idf the fitted weights); the
\* cnt and tfidf rows are in the order of the vectorizer's columns
newsample_df(cntvect, idf, vba) ==
    LET newsample_cnt == PredCounts[cntvect][vba]
    IN  [vba_features |-> PredVbaFeatures[vba],
         cnt |-> newsample_cnt,
         tfidf |-> TfidfRow(idf, newsample_cnt)]

\* newsample_df[predictive_features]: the tfidf_ columns, then the vba_ columns
predictive_row(df) ==
    <<df.tfidf,
      <<df.vba_features.vba_avg_param_per_func, df.vba_features.vba_cnt_comments,
        df.vba_features.vba_cnt_functions, df.vba_features.vba_cnt_loc,
        df.vba_features.vba_cnt_func_loc_ratio, df.vba_features.vba_cnt_comment_loc_ratio,
        df.vba_features.vba_entropy_chars, df.vba_features.vba_entropy_words,
        df.vba_features.vba_entropy_func_names, df.vba_features.vba_mean_loc_per_func>> >>

\* self.cls.predict(newsample)[0] for a classifier that labels the rows of
\* malicious_rows malicious
cls_predict(malicious_rows, row) == IF row \in malicious_rows THEN "malicious" ELSE "benign"

\* classify_vba, lines 663-685: the flat dictionary, with result_dictionary the
\* nested one
flat_result_dictionary(df, prediction, vba_feature_results) ==
    [featureprint |-> vba_feature_results.featureprint,
     feats |-> vba_feature_results.feats,
     function_names |-> df.vba_features.function_names,
     prediction |-> prediction,
     result_dictionary |->
         [vba_lang_features |-> vba_feature_results.nested,
          function_names |-> df.vba_features.function_names,
          prediction |-> prediction]]

\* classify_vba, lines 650-664, of the row of features df.  The columns of the
\* cnt and tfidf rows get the names of self.features by position.
classify_df(feats, classifier, df) ==
    flat_result_dictionary(df, cls_predict(classifier, predictive_row(df)),
                           get_top_vba_features(feats, df, 5))

\* classify_vba(vba) under a model
classify_vba_with(feats, cntvect, idf, classifier, vba) ==
    classify_df(feats, classifier, newsample_df(cntvect, idf, vba))

\* self.classify_vba(vba)
classify_vba(vba) ==
    classify_vba_with(features[1], model_cntvect, model_tfidf_trans, cls, vba)

\* A mutation of classify_rows: the TF-IDF weights are fitted on the batch
classify_rows_refit(sample) ==
    [i \in DOMAIN sample |->
        classify_vba_with(features[1], model_cntvect,
                          IdfFit([d \in DOMAIN sample |-> PredCounts[model_cntvect][sample[d]]],
                                 Len(model_cntvect)),
                          cls, sample[i])]

\* sample.extracted_vba.apply(self.classify_vba): a row of results per row of sample
classify_rows(sample) == [i \in DOMAIN sample |-> classify_vba(sample[i])]

\* A mutation of policy_override: the predictions are left as the classifier gave them
policy_override_none(rows) == rows

\* complete_result.loc[complete_result.extracted_vba == 'No VBA Macros found',
\*                     'prediction'] = 'benign'
policy_override(rows) ==
    [i \in DOMAIN rows |->
        IF rows[i].extracted_vba = NoMacros
        THEN [rows[i] EXCEPT !.prediction = "benign"]
        ELSE rows[i]]

\* pd.concat([sample, results], axis=1): a row of sample beside its row of results
concat_row(extracted_vba, result) ==
    [extracted_vba |-> extracted_vba,
     featureprint |-> result.featureprint,
     feats |-> result.feats,
     function_names |-> result.function_names,
     prediction |-> result.prediction,
     result_dictionary |-> result.result_dictionary]

\* pd.concat of rows that have the same index
concat(sample, results) == [i \in DOMAIN sample |-> concat_row(sample[i], results[i])]

\* mmb_predict(sample_input, datatype='vba') for a DataFrame with the column
\* extracted_vba (a string is a DataFrame of one row)
mmb_predict(sample) == policy_override(concat(sample, classify_rows(sample)))

\* mmb_prediction_to_json(prediction): the result_dictionary of every row
mmb_prediction_to_json(prediction) ==
    [i \in DOMAIN prediction |-> prediction[i].result_dictionary]

\* The feature rows a classifier can be asked about
PossibleRows(cntvect, idf) ==
    {predictive_row(newsample_df(cntvect, idf, t)) : t \in PredTexts}

\* self.features after get_language_features with the vocabulary list order
FeaturesOf(order) ==
    [vocab |-> VocabFile,
     features |-> order,
     cnt_features |-> cnt_names(order),
     tfidf_features |-> tfidf_names(order)]

IdlePred ==
    /\ origin = "none"
    /\ features = None
    /\ model_cntvect = <<>>
    /\ model_tfidf_trans = <<>>
    /\ cls = {}
    /\ saved_model = None
    /\ complete_result = None

InitPred == IdlePred

\* mmb_init_model() of an object with no saved model: get_language_features,
\* build_models and save_model.  The order of list(set(vocab_lower)) and the
\* forest that build_models fits are not determined by the inputs.
BuildModel ==
    /\ origin = "none"
    /\ \E order \in ListsOfSet(vocab_lower(VocabFile)) :
          LET modeldata_cnts ==
                  CountMatrix(order, [d \in DOMAIN TrainDocs |-> TrainDocs[d].extracted_vba])
              idf == IdfFit(modeldata_cnts, Len(order))
          IN  /\ features' = Some(FeaturesOf(order))
              /\ model_cntvect' = order
              /\ model_tfidf_trans' = idf
              /\ cls' \in SUBSET PossibleRows(order, idf)
              /\ saved_model' = Some([features |-> FeaturesOf(order),
                                      model_cntvect_cnts_array |-> modeldata_cnts])
    /\ origin' = "built"
    /\ complete_result' = None
    /\ UNCHANGED notPred

\* load_model() in a process started later, from the saved model: the count
\* vectorizer is made again from list(set(vocab_lower)), the idf weights are
\* fitted again on the saved count matrix, the forest is fitted again
LoadModel ==
    /\ saved_model # None
    /\ \E order \in ListsOfSet(vocab_lower(saved_model[1].features.vocab)) :
          LET idf == IdfFit(saved_model[1].model_cntvect_cnts_array,
                            Len(saved_model[1].features.features))
          IN  /\ model_cntvect' = order
              /\ model_tfidf_trans' = idf
              /\ cls' \in SUBSET PossibleRows(order, idf)
    /\ features' = Some(saved_model[1].features)
    /\ origin' = "loaded"
    /\ complete_result' = None
    /\ UNCHANGED <<saved_model, notPred>>

\* mmb_predict(sample_input, datatype='vba')
MmbPredict ==
    /\ origin # "none"
    /\ \E sample \in SeqsUpTo(PredTexts, MaxBatch) \ {<<>>} :
          complete_result' = Some(mmb_predict(sample))
    /\ UNCHANGED <<modelVars, notPred>>

NextPred == BuildModel \/ LoadModel \/ MmbPredict

\* The row of features classify_vba makes of a text under the current model
PredRow(vba) == predictive_row(newsample_df(model_cntvect, model_tfidf_trans, vba))

\* C1: every row mmb_predict returns whose extracted_vba is 'No VBA Macros
\* found' has prediction 'benign', whatever the classifier said of it; every
\* other row has the label the classifier gave it.
C1_PolicyOverride ==
    complete_result # None =>
        \A i \in DOMAIN complete_result[1] :
            LET row == complete_result[1][i]
            IN  IF row.extracted_vba = NoMacros
                THEN row.prediction = "benign"
                ELSE /\ row.prediction = cls_predict(cls, PredRow(row.extracted_vba))
                     /\ row.prediction = row.result_dictionary.prediction

\* A batch with a no-macros row the classifier calls malicious, returned as
\* benign, beside a row with macros returned as the classifier's malicious
C1_Witness ==
    /\ complete_result # None
    /\ Len(complete_result[1]) = 2
    /\ complete_result[1][1].extracted_vba = NoMacros
    /\ complete_result[1][1].result_dictionary.prediction = "malicious"
    /\ complete_result[1][1].prediction = "benign"
    /\ complete_result[1][2].extracted_vba = TextShellRun
    /\ complete_result[1][2].prediction = "malicious"

\* C22: for every row mmb_predict returns, the prediction of the record that
\* mmb_prediction_to_json gives for the row is the prediction of the row; the
\* record of a row whose text is 'No VBA Macros found' says 'benign'.
C22_ViewsAgree ==
    complete_result # None =>
        \A i \in DOMAIN complete_result[1] :
            /\ mmb_prediction_to_json(complete_result[1])[i].prediction =
                   complete_result[1][i].prediction
            /\ complete_result[1][i].extracted_vba = NoMacros =>
                   mmb_prediction_to_json(complete_result[1])[i].prediction = "benign"

\* C4: after a model trained in one process is loaded in another, every
\* vocabulary token has the same column in the count vectorizer built by
\* load_model as in the persisted cnt_features, tfidf_features and count matrix.
C4_ColumnOrder ==
    origin = "loaded" =>
        \A i \in DOMAIN model_cntvect :
            /\ features[1].cnt_features[i] = Prefix_cnt \o model_cntvect[i]
            /\ features[1].tfidf_features[i] = Prefix_tfidf \o model_cntvect[i]
            /\ saved_model[1].features.features[i] = model_cntvect[i]

\* C17: training is deterministic: when load_model fits the forest again on
\* the same persisted model (with the vectorizer's columns in the same order),
\* the classifier gives every input the label the last one gave.
C17_DeterministicTraining ==
    [][(/\ origin = "loaded" /\ origin' = "loaded"
        /\ saved_model' = saved_model
        /\ model_cntvect' = model_cntvect) => cls' = cls]_vars

\* C6: under a fixed model the featureprint of every row of a batch is the
\* featureprint mmb_predict gives the row's text alone, so it does not change
\* when rows are permuted, added or removed.
C6_FeatureprintStable ==
    complete_result # None =>
        \A i \in DOMAIN complete_result[1] :
            complete_result[1][i].featureprint =
                mmb_predict(<<complete_result[1][i].extracted_vba>>)[1].featureprint

\* A batch of two texts that share a token, the second with a featureprint
C6_Witness ==
    /\ complete_result # None
    /\ Len(complete_result[1]) = 2
    /\ complete_result[1][1].extracted_vba = TextShell
    /\ complete_result[1][2].extracted_vba = TextShellRun
    /\ complete_result[1][2].featureprint # <<>>

(***************************************************************************)
(* The corpus on disk, self.modeldata and the two model stores             *)
(*                                                                         *)
(* A DataFrame is [columns, rows]: the set of its column names and the     *)
(* sequence of its rows.  A row has a field per modelled column (and its   *)
(* index label); the cell of a column the frame does not have is NaN.      *)
(* The columns filename, stream_path, filename_vba, family and the         *)
(* computed cnt_, tfidf_ and vba_ columns are left out.                    *)
(***************************************************************************)
\* self.malicious_path and self.benign_path
malicious_path == <<"m", "/">>
benign_path == <<"b", "/">>

\* The file paths there can be, in the order os.walk lists them
Paths == << <<"m", "/", "a">>, <<"m", "/", "x">>, <<"b", "/", "a">> >>

PathSet == Range(Paths)

\* What a file can hold, and the mark of a path with no file
Contents == {"p", "q"}
Absent == "absent"

\* The strings handed as exclude
Excludes == { <<"x">>, <<"m", "/">> }

\* np.nan, and the string 'none'
NaN == <<>>
NoneStr == <<"n", "o", "n", "e">>

\* os.path.getsize, time.ctime(os.path.getmtime) and the md5 digest of a file
\* that holds c: files that differ in what they hold differ in all three
getsize(c) == <<"s", c>>
getmtime(c) == <<"t", c>>
hexdigest(c) == <<"h", c>>

\* get_file_hash(pathtofile): None when the path is not a file
get_file_hash(d, pathtofile) ==
    IF pathtofile \in PathSet /\ d[pathtofile] # Absent
    THEN hexdigest(d[pathtofile])
    ELSE NaN

\* get_vba(myfile)['extracted_vba']: the macro text of the file, or the sentinel
get_vba(d, myfile) == IF d[myfile] = "p" THEN NoMacros ELSE TextShellRun

\* s.startswith(p) and the test of str.contains(sub)
StartsWith(s, p) == Len(s) >= Len(p) /\ SubSeq(s, 1, Len(p)) = p
Contains(s, sub) == \E i \in 1..(Len(s) - Len(sub) + 1) : SubSeq(s, i, i + Len(sub) - 1) = sub

\* The rows at the positions of S, in order, from position i on
RECURSIVE SelectAt(_, _, _)
SelectAt(rows, S, i) ==
    IF i > Len(rows) THEN <<>>
    ELSE (IF i \in S THEN <<rows[i]>> ELSE <<>>) \o SelectAt(rows, S, i + 1)

\* reset_index(drop=True)
reset_index(rows) == [i \in DOMAIN rows |-> [rows[i] EXCEPT !.index = i - 1]]

\* The files os.walk finds under path, from position i of Paths on
RECURSIVE ListDir(_, _, _)
ListDir(d, path, i) ==
    IF i > Len(Paths) THEN <<>>
    ELSE (IF StartsWith(Paths[i], path) /\ d[Paths[i]] # Absent THEN <<Paths[i]>> ELSE <<>>)
         \o ListDir(d, path, i + 1)

ScanColumns == {"filepath", "filesize", "filemodified", "md5"}

\* The DataFrame of the files listed in files; md5 is NaN as getHash is False
samples_frame(d, files, label) ==
    [columns |-> IF files = <<>> THEN {} ELSE ScanColumns \cup {"label"},
     rows |-> [i \in DOMAIN files |->
                  [index |-> i - 1,
                   filepath |-> files[i],
                   filesize |-> getsize(d[files[i]]),
                   filemodified |-> getmtime(d[files[i]]),
                   md5 |-> NaN,
                   label |-> label,
                   extracted_vba |-> NaN]]]

\* get_samples_from_disk(path) followed by the assignment of the label column
get_samples_from_disk(d, path, label) == samples_frame(d, ListDir(d, path, 1), label)

\* pd.concat([a, b], axis=0) and a.append(b): the index labels are kept
concat_frames(a, b) == [columns |-> a.columns \cup b.columns, rows |-> a.rows \o b.rows]

\* The outcomes of load_model_data
DataRaised(kind) ==
    [raised |-> kind, modeldata |-> [columns |-> {}, rows |-> <<>>], newdoc_cnt |-> 0,
     gotvba |-> <<>>]

DataDone(alldocs, newdoc_cnt, gotvba) ==
    [raised |-> "no", modeldata |-> alldocs, newdoc_cnt |-> newdoc_cnt, gotvba |-> gotvba]

\* possiblenew['filepath'].apply(self.get_file_hash)
apply_get_file_hash(d, rows) ==
    [i \in DOMAIN rows |-> [rows[i] EXCEPT !.md5 = get_file_hash(d, rows[i].filepath)]]

\* rows['filepath'].apply(self.get_vba)
apply_get_vba(d, rows) ==
    [i \in DOMAIN rows |-> [rows[i] EXCEPT !.extracted_vba = get_vba(d, rows[i].filepath)]]

filepaths(rows) == [i \in DOMAIN rows |-> rows[i].filepath]

\* load_model_data, lines 328-334: no known documents
first_build(d, possiblenew) ==
    DataDone([columns |-> possiblenew.columns \cup {"extracted_vba"},
              rows |-> apply_get_vba(d, apply_get_file_hash(d, possiblenew.rows))],
             Len(possiblenew.rows), filepaths(possiblenew.rows))

\* Two rows of one group of groupby(['filesize', 'filepath', 'filemodified']);
\* a row with NaN in a key is in no group
SameGroup(r, s) ==
    /\ r.filesize # NaN /\ r.filepath # NaN /\ r.filemodified # NaN
    /\ r.filesize = s.filesize /\ r.filepath = s.filepath /\ r.filemodified = s.filemodified

\* The same with no row left out: every scanned row goes on to be hashed
omit_none(rows) == reset_index(rows)

\* lines 338-340: the rows without a digest whose file is in a group of more
\* than one row are left out, and the index is reset
omit_grouped(rows) ==
    LET omit == {rows[i].filepath :
                    i \in {k \in DOMAIN rows :
                              \E j \in DOMAIN rows \ {k} : SameGroup(rows[k], rows[j])}}
    IN  reset_index(SelectAt(rows,
                             {i \in DOMAIN rows : ~(rows[i].filepath \in omit /\ rows[i].md5 = NaN)},
                             1))

\* fill_missing_hashes(row)
fill_missing_hashes(d, row) ==
    IF row.md5 = NaN THEN get_file_hash(d, row.filepath) ELSE row.md5

\* temp.apply(self.fill_missing_hashes, axis=1)
apply_fill_missing_hashes(d, rows) ==
    [i \in DOMAIN rows |-> [rows[i] EXCEPT !.md5 = fill_missing_hashes(d, rows[i])]]

\* temp.drop_duplicates(subset='md5', keep='first')
drop_duplicates(rows) ==
    SelectAt(rows, {i \in DOMAIN rows : \A j \in 1..(i - 1) : rows[j].md5 # rows[i].md5}, 1)

\* temp['extracted_vba'].isnull(), as the positions of the rows
isnull_vba(rows) == {i \in DOMAIN rows : rows[i].extracted_vba = NaN}

\* lines 350-361, of the documents that are new and those that are known
merge_docs(d, columns, knowndocs, newdocs) ==
    IF Len(newdocs) > 0
    THEN DataDone([columns |-> columns,
                   rows |-> reset_index(knowndocs \o apply_get_vba(d, newdocs))],
                  Len(newdocs), filepaths(newdocs))
    ELSE DataDone([columns |-> columns, rows |-> knowndocs], 0, <<>>)

\* lines 346-361
enrich(d, columns, temp) ==
    merge_docs(d, columns,
               SelectAt(temp, DOMAIN temp \ isnull_vba(temp), 1),
               SelectAt(temp, isnull_vba(temp), 1))

\* lines 336-361 of the frame temp = knowndocs.append(possiblenew): selecting a
\* column the frame does not have raises KeyError
merge(d, temp) ==
    IF ~({"filesize", "filepath", "filemodified", "md5"} \subseteq temp.columns)
    THEN DataRaised("KeyError")
    ELSE IF "extracted_vba" \notin temp.columns
    THEN DataRaised("KeyError")
    ELSE enrich(d, temp.columns,
                drop_duplicates(apply_fill_missing_hashes(d, omit_grouped(temp.rows))))

\* alldocs.drop(alldocs[alldocs['filepath'].str.contains(exclude)].index): the
\* rows are dropped by their index labels
drop_excluded(alldocs, exclude) ==
    LET labels == {alldocs.rows[i].index :
                      i \in {k \in DOMAIN alldocs.rows : Contains(alldocs.rows[k].filepath, exclude)}}
    IN  [columns |-> alldocs.columns,
         rows |-> SelectAt(alldocs.rows,
                           {i \in DOMAIN alldocs.rows : alldocs.rows[i].index \notin labels}, 1)]

\* lines 363-369
keep_working_set(r, exclude) ==
    IF r.raised # "no" \/ exclude = None THEN r
    ELSE DataDone(drop_excluded(r.modeldata, exclude[1]), r.newdoc_cnt, r.gotvba)

\* lines 321-361
find_docs(d, knowndocs, possiblenew) ==
    IF possiblenew.rows = <<>> /\ knowndocs = None THEN DataRaised("IOError")
    ELSE IF knowndocs = None THEN first_build(d, possiblenew)
    ELSE merge(d, concat_frames(knowndocs[1], possiblenew))

\* load_model_data(exclude) of an object whose self.modeldata is knowndocs
\* (None or <<a frame>>), with d on disk: whether it raised, the new
\* self.modeldata, the count it returned, and the files handed to get_vba
load_model_data(d, knowndocs, exclude) ==
    keep_working_set(
        find_docs(d, knowndocs,
                  concat_frames(get_samples_from_disk(d, malicious_path, "malicious"),
                                get_samples_from_disk(d, benign_path, "benign"))),
        exclude)

\* save_model, lines 378-382: the columns of metadata are dropped from
\* self.modeldata itself unless the contents are retained
Metadata == {"filemodified", "extracted_vba", "filepath", "filesize"}

strip_row(r) ==
    [r EXCEPT !.filemodified = NaN, !.extracted_vba = NaN, !.filepath = NaN, !.filesize = NaN]

strip_metadata(retain, frame) ==
    IF retain THEN frame
    ELSE [columns |-> frame.columns \ Metadata,
          rows |-> [i \in DOMAIN frame.rows |-> strip_row(frame.rows[i])]]

\* A store: no file, a file that does not unpickle, or a saved model
NoStore == [state |-> "absent", modeldata |-> [columns |-> {}, rows |-> <<>>]]
CorruptStore == [state |-> "corrupt", modeldata |-> [columns |-> {}, rows |-> <<>>]]
ValidStore(frame) == [state |-> "valid", modeldata |-> frame]

\* The model of modeldata.pickle.gz that comes with the package: saved without
\* the sample contents
GzModel ==
    [columns |-> {"md5", "label"},
     rows |-> <<[index |-> 0, filepath |-> NaN, filesize |-> NaN, filemodified |-> NaN,
                 md5 |-> <<"h", "g">>, label |-> "malicious", extracted_vba |-> NaN]>>]

\* What joblib.load can raise on a file that does not unpickle
ExceptionKinds == {"IOError", "TypeError", "Other"}

\* load_model, lines 443-450: the columns that are missing are filled with 'none'
none_row(columns, r) ==
    [r EXCEPT !.filemodified = IF "filemodified" \in columns THEN @ ELSE NoneStr,
              !.filepath = IF "filepath" \in columns THEN @ ELSE NoneStr,
              !.filesize = IF "filesize" \in columns THEN @ ELSE NoneStr]

fill_none(frame) ==
    [columns |-> frame.columns \cup {"filemodified", "filepath", "filesize"},
     rows |-> [i \in DOMAIN frame.rows |-> none_row(frame.columns, frame.rows[i])]]

\* The outcomes of load_model: source is the store self.modeldata was set from
LoadRaised == [raised |-> "Other", ok |-> FALSE, source |-> "none", modeldata |-> NoStore.modeldata]
LoadFailed == [raised |-> "no", ok |-> FALSE, source |-> "none", modeldata |-> NoStore.modeldata]

\* lines 416-456 of the model read from source: fitting the forest on no rows
\* raises, after self.modeldata was set
use_model(source, frame) ==
    IF frame.rows = <<>>
    THEN [raised |-> "no", ok |-> FALSE, source |-> source, modeldata |-> frame]
    ELSE [raised |-> "no", ok |-> TRUE, source |-> source, modeldata |-> fill_none(frame)]

\* lines 407-413: the compressed store, after IOError on the primary one
load_gz(pickle_gz) ==
    IF pickle_gz.state = "valid" THEN use_model("gz", pickle_gz.modeldata) ELSE LoadFailed

\* load_model(): kind is what joblib.load raises if modeldata.pickle does not
\* unpickle.  IOError leads to the compressed store, TypeError is logged, and
\* the try statement of lines 403-415 has no handler for anything else
load_model(pickle, pickle_gz, kind) ==
    IF pickle.state = "valid" THEN use_model("pickle", pickle.modeldata)
    ELSE IF pickle.state = "absent" \/ kind = "IOError" THEN load_gz(pickle_gz)
    ELSE IF kind = "TypeError" THEN LoadFailed
    ELSE LoadRaised

\* The outcomes of mmb_init_model
InitOutcome(raised, ok, md, pickle, l, r) ==
    [raised |-> raised, ok |-> ok, modeldata |-> md, pickle |-> pickle, source |-> l.source,
     stripped |-> (l.source # "none" /\ "extracted_vba" \notin l.modeldata.columns),
     newdoc_cnt |-> r.newdoc_cnt, gotvba |-> r.gotvba]

\* mmb_init_model, lines 713-723, after load_model_data gave r
init_after_data(retain, md, pickle, l, r) ==
    IF r.raised # "no" THEN InitOutcome(r.raised, FALSE, md, pickle, l, r)
    ELSE IF r.newdoc_cnt > 0
    THEN InitOutcome("no", r.modeldata.rows # <<>>,
                     Some(strip_metadata(retain, r.modeldata)),
                     ValidStore(strip_metadata(retain, r.modeldata)), l, r)
    ELSE InitOutcome("no", l.ok /\ r.modeldata.rows # <<>>, Some(r.modeldata), pickle, l, r)

\* mmb_init_model, lines 711-724, after load_model gave l and left md as self.modeldata
init_after_load(d, retain, md, pickle, modelRebuild, l) ==
    IF l.raised # "no" THEN InitOutcome(l.raised, FALSE, md, pickle, l, DataDone(<<>>, 0, <<>>))
    ELSE IF modelRebuild \/ ~l.ok
    THEN init_after_data(retain, md, pickle, l, load_model_data(d, md, None))
    ELSE InitOutcome("no", l.ok, md, pickle, l, DataDone(<<>>, 0, <<>>))

\* self.modeldata after load_model gave l
modeldata_after_load(md, l) == IF l.source = "none" THEN md ELSE Some(l.modeldata)

\* mmb_init_model(modelRebuild) with exclude and labeled_df None
mmb_init_model(d, retain, md, pickle, pickle_gz, modelRebuild, kind) ==
    init_after_load(d, retain, modeldata_after_load(md, load_model(pickle, pickle_gz, kind)),
                    pickle, modelRebuild, load_model(pickle, pickle_gz, kind))

\* modeldata.join(pd.DataFrame(values)), lines 243 and 250: the frame made of
\* the matrix has the index 0, 1, ..., and a row of self.modeldata gets the
\* row of the matrix that has its index label, or NaN if there is none
join_by_index(rows, values) ==
    [i \in DOMAIN rows |->
        IF rows[i].index + 1 \in DOMAIN values THEN Some(values[rows[i].index + 1]) ELSE NaN]

\* fit_transform of the count vectorizer and of the tf-idf transformer on
\* self.modeldata['extracted_vba'] (lines 239 and 248), row by position
tfidf_rows(cnts, idf) == [i \in DOMAIN cnts |-> [cnt |-> cnts[i], tfidf |-> TfidfRow(idf, cnts[i])]]

language_rows(vocabulary, rows) ==
    tfidf_rows([i \in DOMAIN rows |-> PredCounts[vocabulary][rows[i].extracted_vba]],
               IdfFit([i \in DOMAIN rows |-> PredCounts[vocabulary][rows[i].extracted_vba]],
                      Len(vocabulary)))

\* get_language_features() on self.modeldata = frame when the vocabulary list
\* of the vectorizer is vocabulary: the cnt_ and tfidf_ cells of every row of
\* self.modeldata after the two joins
get_language_features(vocabulary, frame) ==
    [vocabulary |-> vocabulary,
     rows |-> join_by_index(frame.rows, language_rows(vocabulary, frame.rows))]

\* mmb_predict, lines 768-778, datatype 'filepath': the rows of the files found.
\* For a str that names a directory they are one frame of get_samples_from_disk;
\* for a DataFrame (the list of its filepath cells, each the path of a file)
\* sample.append(allfiles) puts one frame per cell below the other, and every
\* frame has the index 0, 1, ...
found_files(d, input) ==
    apply_get_file_hash(d,
        IF input.type = "str"
        THEN samples_frame(d, ListDir(d, input.str, 1), NaN).rows
        ELSE [i \in DOMAIN input.list |-> samples_frame(d, <<input.list[i]>>, NaN).rows[1]])

\* lines 779-781: sample.drop(sample[sample['filepath'].str.contains(
\* exclude_files)].index), then get_vba of the rows that are left
analysed_files(rows, exclude_files) ==
    filepaths(drop_excluded([columns |-> ScanColumns, rows |-> rows], exclude_files).rows)

\* The files there are on disk
FilesOn(d) == {p \in PathSet : d[p] # Absent}

\* Of every digest among the known rows and the files on disk, the file path
\* of the row that holds it first (the known rows come first)
FirstSeen(d, knowndocs) ==
    LET scanned == apply_get_file_hash(d,
                       concat_frames(get_samples_from_disk(d, malicious_path, "malicious"),
                                     get_samples_from_disk(d, benign_path, "benign")).rows)
        all == (IF knowndocs = None THEN <<>> ELSE knowndocs[1].rows) \o scanned
    IN  {<<all[i].md5, all[i].filepath>> :
            i \in {k \in DOMAIN all : \A j \in 1..(k - 1) : all[j].md5 # all[k].md5}}

\* The record of the last call: which operation, what it raised ("no" if
\* nothing), the boolean it returned, the count load_model_data returned, the
\* files handed to get_vba, the store load_model used and whether its model
\* came without the sample contents, the parameter modelRebuild, whether
\* load_model_data had completed before on the same object with nothing done
\* since, the first-seen rows at the call, the parameter exclude or
\* exclude_files, and the files mmb_predict found
NoCall ==
    [op |-> "none", raised |-> "no", ok |-> FALSE, newdoc_cnt |-> 0, gotvba |-> <<>>,
     source |-> "none", stripped |-> FALSE, modelRebuild |-> FALSE, rerun |-> FALSE,
     first_seen |-> {}, exclude |-> None, files |-> <<>>]

IdleStore ==
    /\ disk = [p \in PathSet |-> Absent]
    /\ modeldata = None
    /\ retain_sample_contents = FALSE
    /\ modeldata_pickle = NoStore
    /\ modeldata_pickle_gz = NoStore
    /\ last = NoCall
    /\ unchanged_since_load = FALSE
    /\ modeldata_features = None

(***************************************************************************)
(* SpecData: load_model_data run again and again by one object while the   *)
(* corpus changes                                                          *)
(***************************************************************************)
InitData ==
    /\ disk \in [PathSet -> Contents \cup {Absent}]
    /\ modeldata = None
    /\ retain_sample_contents = TRUE
    /\ modeldata_pickle = NoStore
    /\ modeldata_pickle_gz = NoStore
    /\ last = NoCall
    /\ unchanged_since_load = FALSE
    /\ modeldata_features = None

\* What load_model_data leaves behind when its outcome is r
LoadModelDataEnds(r, first_seen, exclude) ==
    /\ modeldata' = IF r.raised = "no" THEN Some(r.modeldata) ELSE modeldata
    /\ last' = [NoCall EXCEPT !.op = "load_model_data", !.raised = r.raised,
                              !.newdoc_cnt = r.newdoc_cnt, !.gotvba = r.gotvba,
                              !.rerun = unchanged_since_load, !.first_seen = first_seen,
                              !.exclude = exclude]
    /\ unchanged_since_load' = (r.raised = "no")

\* newdoc_cnt = self.load_model_data(exclude)
LoadModelData ==
    /\ \E exclude \in {None} \cup {Some(x) : x \in Excludes} :
          LoadModelDataEnds(load_model_data(disk, modeldata, exclude),
                            FirstSeen(disk, modeldata), exclude)
    /\ modeldata_features' = None
    /\ UNCHANGED <<disk, retain_sample_contents, modeldata_pickle, modeldata_pickle_gz, notStore>>

\* A file is added to the corpus, or written again with other contents
WriteFile ==
    /\ \E p \in PathSet, c \in Contents :
          /\ disk[p] # c
          /\ disk' = [disk EXCEPT ![p] = c]
    /\ unchanged_since_load' = FALSE
    /\ last' = NoCall
    /\ UNCHANGED <<modeldata, retain_sample_contents, modeldata_pickle, modeldata_pickle_gz,
                   modeldata_features, notStore>>

\* A file is removed from the corpus
RemoveFile ==
    /\ \E p \in PathSet :
          /\ disk[p] # Absent
          /\ disk' = [disk EXCEPT ![p] = Absent]
    /\ unchanged_since_load' = FALSE
    /\ last' = NoCall
    /\ UNCHANGED <<modeldata, retain_sample_contents, modeldata_pickle, modeldata_pickle_gz,
                   modeldata_features, notStore>>

\* self.get_language_features() on the rows load_model_data left
GetLanguageFeatures ==
    /\ modeldata # None
    /\ modeldata[1].rows # <<>>
    /\ "extracted_vba" \in modeldata[1].columns
    /\ \E order \in ListsOfSet(vocab_lower(VocabFile)) :
          modeldata_features' = Some(get_language_features(order, modeldata[1]))
    /\ last' = [NoCall EXCEPT !.op = "get_language_features"]
    /\ UNCHANGED <<disk, modeldata, retain_sample_contents, modeldata_pickle,
                   modeldata_pickle_gz, unchanged_since_load, notStore>>

\* The inputs of mmb_predict with datatype 'filepath': a directory of the
\* corpus, or a DataFrame of one or two paths of files there are
PredictInputs(d) ==
    {PyStr(malicious_path), PyStr(benign_path)}
    \cup {PyList(<<f>>) : f \in FilesOn(d)}
    \cup {PyList(<<q[1], q[2]>>) : q \in {r \in FilesOn(d) \X FilesOn(d) : r[1] # r[2]}}

\* What mmb_predict leaves behind: with no row left, line 806 raises
MmbPredictEnds(found, analysed, exclude_files) ==
    last' = [NoCall EXCEPT !.op = "mmb_predict",
                           !.raised = IF analysed = <<>> THEN "ValueError" ELSE "no",
                           !.gotvba = analysed,
                           !.exclude = Some(exclude_files),
                           !.files = found]

\* self.mmb_predict(sample_input, datatype='filepath', exclude_files=...)
MmbPredictFiles ==
    /\ \E input \in PredictInputs(disk), exclude_files \in Excludes :
          /\ found_files(disk, input) # <<>>
          /\ MmbPredictEnds(filepaths(found_files(disk, input)),
                            analysed_files(found_files(disk, input), exclude_files),
                            exclude_files)
    /\ UNCHANGED <<disk, modeldata, retain_sample_contents, modeldata_pickle,
                   modeldata_pickle_gz, unchanged_since_load, modeldata_features, notStore>>

NextData == LoadModelData \/ WriteFile \/ RemoveFile \/ GetLanguageFeatures

\* SpecExclude: one object that loads the samples of a corpus and predicts
\* files of it, with exclude and exclude_files
NextExclude == LoadModelData \/ MmbPredictFiles

\* C2: when load_model_data is run again by the object while no file of the
\* corpus was added, removed or changed since its last run, it returns 0 and
\* hands no file to get_vba (also when files have the same contents).
C2_IdempotentIngestion ==
    (last.op = "load_model_data" /\ last.rerun) =>
        /\ last.raised = "no"
        /\ last.newdoc_cnt = 0
        /\ last.gotvba = <<>>

\* C3: after every completed load_model_data, self.modeldata has at most one
\* row per md5, and the row of an md5 is the one seen first.
C3_OneRowPerDigest ==
    (last.op = "load_model_data" /\ last.raised = "no") =>
        /\ \A i, j \in DOMAIN modeldata[1].rows :
              i # j => modeldata[1].rows[i].md5 # modeldata[1].rows[j].md5
        /\ \A i \in DOMAIN modeldata[1].rows :
              <<modeldata[1].rows[i].md5, modeldata[1].rows[i].filepath>> \in last.first_seen

\* The rows load_model_data scans (possiblenew), and the same with the digest
\* of every file
ScannedRows(d) ==
    concat_frames(get_samples_from_disk(d, malicious_path, "malicious"),
                  get_samples_from_disk(d, benign_path, "benign")).rows

Scanned(d) == apply_get_file_hash(d, ScannedRows(d))

KnownDigests(known) == {known[i].md5 : i \in DOMAIN known}

\* The files that hold content no known row has, one file per digest, in the
\* order of the scan
NewFiles(d, known) ==
    filepaths(SelectAt(Scanned(d),
                       {i \in DOMAIN Scanned(d) :
                           /\ Scanned(d)[i].md5 \notin KnownDigests(known)
                           /\ \A j \in 1..(i - 1) : Scanned(d)[j].md5 # Scanned(d)[i].md5},
                       1))

\* The files a known row describes by file size, file path and modified time
UnchangedFiles(d, known) ==
    {q \in FilesOn(d) :
        \E i \in DOMAIN known :
            /\ known[i].filepath = q
            /\ known[i].filesize = getsize(d[q])
            /\ known[i].filemodified = getmtime(d[q])}

\* The files fill_missing_hashes computes the digest of (line 341): the rows
\* that are still without one after the grouped rows were left out
hashed_files(d, known) ==
    {r.filepath : r \in {x \in Range(omit_grouped(known \o ScannedRows(d))) : x.md5 = NaN}}

C20_RowAlignment ==
    modeldata_features # None =>
        \A i \in DOMAIN modeldata[1].rows :
            modeldata_features[1].rows[i] =
                Some(language_rows(modeldata_features[1].vocabulary, modeldata[1].rows)[i])

\* The rows whose file path does not contain s
NotContaining(rows, s) ==
    SelectAt(rows, {i \in DOMAIN rows : ~Contains(rows[i].filepath, s)}, 1)

\* C21: load_model_data(exclude=s) leaves in self.modeldata exactly the rows
\* it would leave without exclude whose file path does not contain s, and
\* mmb_predict(datatype='filepath', exclude_files=s) hands to get_vba exactly
\* the files found whose path does not contain s.
C21_ExactExclusion ==
    [][/\ (/\ last'.op = "load_model_data"
           /\ last'.raised = "no"
           /\ last'.exclude # None) =>
              modeldata'[1].rows =
                  NotContaining(load_model_data(disk, modeldata, None).modeldata.rows,
                                last'.exclude[1])
       /\ last'.op = "mmb_predict" =>
              last'.gotvba =
                  SelectSeq(last'.files, LAMBDA f : ~Contains(f, last'.exclude[1]))]_vars

(***************************************************************************)
(* SpecStore: objects that load, build and save the model of one model     *)
(* directory                                                               *)
(***************************************************************************)
\* The corpora of the runs
FullCorpus == [p \in PathSet |-> IF p = Paths[2] THEN "q" ELSE "p"]
StoreCorpora == {[p \in PathSet |-> Absent], FullCorpus, [FullCorpus EXCEPT ![Paths[1]] = Absent]}

InitStore ==
    /\ disk \in StoreCorpora
    /\ modeldata = None
    /\ retain_sample_contents \in BOOLEAN
    /\ modeldata_pickle \in {NoStore, CorruptStore}
    /\ modeldata_pickle_gz \in {NoStore, CorruptStore, ValidStore(GzModel)}
    /\ last = NoCall
    /\ unchanged_since_load = FALSE
    /\ modeldata_features = None

\* MaliciousMacroBot(benign_path, malicious_path, model_path, retain_sample_contents)
NewObject ==
    /\ modeldata' = None
    /\ retain_sample_contents' \in BOOLEAN
    /\ last' = NoCall
    /\ unchanged_since_load' = FALSE
    /\ UNCHANGED <<disk, modeldata_pickle, modeldata_pickle_gz, modeldata_features, notStore>>

\* What load_model leaves behind when its outcome is l
LoadModelEnds(l) ==
    /\ modeldata' = modeldata_after_load(modeldata, l)
    /\ last' = [NoCall EXCEPT !.op = "load_model", !.raised = l.raised, !.ok = l.ok,
                              !.source = l.source]

\* modelsLoaded = self.load_model()
LoadStoredModel ==
    /\ \E kind \in ExceptionKinds :
          LoadModelEnds(load_model(modeldata_pickle, modeldata_pickle_gz, kind))
    /\ unchanged_since_load' = FALSE
    /\ UNCHANGED <<disk, retain_sample_contents, modeldata_pickle, modeldata_pickle_gz, modeldata_features, notStore>>

\* What mmb_init_model leaves behind when its outcome is o
MmbInitModelEnds(o, modelRebuild) ==
    /\ modeldata' = o.modeldata
    /\ modeldata_pickle' = o.pickle
    /\ last' = [NoCall EXCEPT !.op = "mmb_init_model", !.raised = o.raised, !.ok = o.ok,
                              !.newdoc_cnt = o.newdoc_cnt, !.gotvba = o.gotvba,
                              !.source = o.source, !.stripped = o.stripped,
                              !.modelRebuild = modelRebuild]

\* modelsLoaded = self.mmb_init_model(modelRebuild)
MmbInitModel ==
    /\ \E modelRebuild \in BOOLEAN, kind \in ExceptionKinds :
          MmbInitModelEnds(mmb_init_model(disk, retain_sample_contents, modeldata,
                                          modeldata_pickle, modeldata_pickle_gz,
                                          modelRebuild, kind),
                           modelRebuild)
    /\ unchanged_since_load' = FALSE
    /\ UNCHANGED <<disk, retain_sample_contents, modeldata_pickle_gz, modeldata_features, notStore>>

\* modeldata.pickle is damaged: what is left of it does not unpickle
DamagePickle ==
    /\ modeldata_pickle.state = "valid"
    /\ modeldata_pickle' = CorruptStore
    /\ last' = NoCall
    /\ UNCHANGED <<disk, modeldata, retain_sample_contents, modeldata_pickle_gz,
                   unchanged_since_load, modeldata_features, notStore>>

\* modeldata.pickle is removed
RemovePickle ==
    /\ modeldata_pickle.state # "absent"
    /\ modeldata_pickle' = NoStore
    /\ last' = NoCall
    /\ UNCHANGED <<disk, modeldata, retain_sample_contents, modeldata_pickle_gz,
                   unchanged_since_load, modeldata_features, notStore>>

NextStore == NewObject \/ LoadStoredModel \/ MmbInitModel \/ DamagePickle \/ RemovePickle

\* C9: load_model never lets an exception escape, whatever the two stores
\* are (valid, absent or corrupt), and it returns False exactly when neither
\* store holds a usable model: a corrupt primary store falls back to a valid
\* compressed one.
C9_LoadModelFallback ==
    last.op = "load_model" =>
        /\ last.raised = "no"
        /\ last.ok = (modeldata_pickle.state = "valid" \/ modeldata_pickle_gz.state = "valid")

\* C10: mmb_init_model(modelRebuild=True) that loads a model save_model wrote
\* without the sample contents finishes without raising, and hands every file
\* of the corpus to get_vba again.
C10_FullRebuildAfterStrip ==
    (/\ last.op = "mmb_init_model"
     /\ last.modelRebuild
     /\ last.source = "pickle"
     /\ last.stripped) =>
        /\ last.raised = "no"
        /\ Range(last.gotvba) = FilesOn(disk)

\* C12: mmb_init_model that finds no model in either store and no file in
\* the corpus directories returns False without raising, and it returns True
\* only when self.modeldata holds the rows of a model.
C12_InitModelStatus ==
    last.op = "mmb_init_model" =>
        /\ (/\ modeldata_pickle.state # "valid"
            /\ modeldata_pickle_gz.state # "valid"
            /\ FilesOn(disk) = {}) => (last.raised = "no" /\ ~last.ok)
        /\ last.ok => (modeldata # None /\ modeldata[1].rows # <<>>)

(***************************************************************************)
(* SpecInput: what mmb_predict, load_model_data and get_vba do with the     *)
(* samples they are handed, up to the extraction of the macro text          *)
(*                                                                         *)
(* A sample is described by the kind of its file.  The classification of    *)
(* the extracted texts (the prediction columns) is left out here.           *)
(***************************************************************************)
MaxFiles == 2

\* The kinds of file a sample can be: an office document with macros or
\* without, a file that is no office document, a file that exists and cannot
\* be opened, a path with no file, and a file that is removed after the scan
FileKinds == {"macros", "nomacros", "malformed", "unreadable", "missing", "vanishes"}

Datatypes == {"vba", "filecontents", "filepath"}

\* The column of a datatype: 'extracted_vba' for 'vba' (lines 770, 785, 796)
column_of(dt) == IF dt = "vba" THEN "extracted_vba" ELSE dt

\* The columns mmb_predict looks for in a DataFrame
FrameColumns == {"extracted_vba", "filecontents", "filepath"}

\* A value that is neither a str nor a DataFrame, a str (rows holds the sample
\* it names or holds, <<>> for the empty string), and a DataFrame
OtherInput == [type |-> "other", columns |-> {}, rows |-> <<>>]
StrInput(rows) == [type |-> "str", columns |-> {}, rows |-> rows]
FrameInput(columns, rows) == [type |-> "DataFrame", columns |-> columns, rows |-> rows]

\* 'Error:' + str(e)
ErrorText == ErrorPrefix \o <<"e">>

\* The bytes of a file of the kind, as the kind of document they are
contents_of(kind) == IF kind \in {"macros", "nomacros"} THEN kind ELSE "malformed"

\* get_vba, lines 471-499: the macro text of the data, 'No VBA Macros found',
\* or 'Error:...' when the parser raises
parse_vba(filedata) ==
    IF filedata = "macros" THEN TextShellRun
    ELSE IF filedata = "nomacros" THEN NoMacros
    ELSE ErrorText

\* get_vba(myfile, source): open(myfile, 'rb').read() at line 467 stands before
\* the try statement
get_vba_source(kind, source) ==
    IF source = "filepath" /\ kind \in {"unreadable", "missing", "vanishes"}
    THEN [raised |-> "IOError", extracted_vba |-> NaN]
    ELSE [raised |-> "no", extracted_vba |-> parse_vba(contents_of(kind))]

\* The record of a call: what it raised, how many samples were scanned or
\* hashed and how many were handed to get_vba, and <<the extracted_vba of the
\* rows it returned>>
Answer(op, raised, scanned, extracted, returned) ==
    [op |-> op, raised |-> raised, scanned |-> scanned, extracted |-> extracted,
     returned |-> returned]

Min(S) == CHOOSE x \in S : \A y \in S : x <= y

\* The rows at which the scan raises: get_samples_from_disk (line 159) of a
\* path that does not exist, get_file_hash (line 114) of a file that cannot be
\* opened
scan_raises(files, kinds) == {i \in DOMAIN files : files[i] \in kinds}

texts_of(files, source) ==
    [i \in DOMAIN files |-> get_vba_source(files[i], source).extracted_vba]

\* The scan of every file, then get_vba of every file; the first exception
\* ends the call
batch_extract(op, files, kinds) ==
    IF scan_raises(files, kinds) # {}
    THEN Answer(op, "IOError", Min(scan_raises(files, kinds)), 0, None)
    ELSE IF scan_raises(files, {"vanishes"}) # {}
    THEN Answer(op, "IOError", Len(files), Min(scan_raises(files, {"vanishes"})), None)
    ELSE Answer(op, "no", Len(files), Len(files), Some(texts_of(files, "filepath")))

\* mmb_predict, lines 767-781: datatype 'filepath'
predict_filepath(input) ==
    IF input.type = "DataFrame" /\ "filepath" \notin input.columns
    THEN Answer("mmb_predict", "ValueError", 0, 0, None)
    ELSE batch_extract("mmb_predict", input.rows, {"missing", "unreadable"})

\* lines 782-791: datatype 'filecontents'
predict_filecontents(input) ==
    IF input.type = "DataFrame" /\ "filecontents" \notin input.columns
    THEN Answer("mmb_predict", "ValueError", 0, 0, None)
    ELSE Answer("mmb_predict", "no", 0, Len(input.rows),
                Some(texts_of(input.rows, "filecontents")))

\* lines 792-798: datatype 'vba'
predict_vba(input) ==
    IF input.type = "DataFrame" /\ "extracted_vba" \notin input.columns
    THEN Answer("mmb_predict", "ValueError", 0, 0, None)
    ELSE Answer("mmb_predict", "no", 0, 0, Some(texts_of(input.rows, "vba")))

\* mmb_predict(sample_input, datatype), lines 761-806, up to the rows it
\* classifies
mmb_predict_input(input, dt) ==
    IF input.type = "other" THEN Answer("mmb_predict", "TypeError", 0, 0, None)
    ELSE IF Len(input.rows) <= 0 THEN Answer("mmb_predict", "no", 0, 0, Some(<<>>))
    ELSE IF dt = "filepath" THEN predict_filepath(input)
    ELSE IF dt = "filecontents" THEN predict_filecontents(input)
    ELSE IF dt = "vba" THEN predict_vba(input)
    ELSE Answer("mmb_predict", "ValueError", 0, 0, None)

\* The files os.walk lists: those that exist
listed(files) == SelectSeq(files, LAMBDA k : k # "missing")

\* load_model_data, lines 313-334, of a corpus of the files
load_batch(files) == batch_extract("load_model_data", listed(files), {"unreadable"})

IdleInput == sample_input = OtherInput /\ datatype = "filepath" /\ answer = None

InitInput ==
    /\ sample_input \in
          {OtherInput}
          \cup {StrInput(rows) : rows \in {<<>>} \cup {<<k>> : k \in FileKinds}}
          \cup {FrameInput(columns, rows) :
                   columns \in SUBSET FrameColumns,
                   rows \in UNION {[1..n -> FileKinds] : n \in 0..MaxFiles}}
    /\ datatype \in Datatypes \cup {"other"}
    /\ answer = None

\* complete_result = self.mmb_predict(sample_input, datatype)
MmbPredictInput ==
    /\ answer = None
    /\ answer' = Some(mmb_predict_input(sample_input, datatype))
    /\ UNCHANGED <<sample_input, datatype, notInput>>

\* self.load_model_data() on a new object whose corpus is the files of the frame
LoadBatch ==
    /\ answer = None
    /\ sample_input.type = "DataFrame"
    /\ "filepath" \in sample_input.columns
    /\ listed(sample_input.rows) # <<>>
    /\ answer' = Some(load_batch(sample_input.rows))
    /\ UNCHANGED <<sample_input, datatype, notInput>>

\* self.get_vba(myfile, source) of one file
GetVba ==
    /\ answer = None
    /\ sample_input.type = "str"
    /\ sample_input.rows # <<>>
    /\ datatype \in {"filepath", "filecontents"}
    /\ answer' = Some(Answer("get_vba",
                             get_vba_source(sample_input.rows[1], datatype).raised,
                             0, 1,
                             IF get_vba_source(sample_input.rows[1], datatype).raised = "no"
                             THEN Some(texts_of(sample_input.rows, datatype))
                             ELSE None))
    /\ UNCHANGED <<sample_input, datatype, notInput>>

NextInput == MmbPredictInput \/ LoadBatch \/ GetVba

\* The samples of the call and the source get_vba is given for them
SamplesOf(a) == IF a.op = "load_model_data" THEN listed(sample_input.rows) ELSE sample_input.rows

\* The call extracts the macro text of files: get_vba, load_model_data, or
\* mmb_predict of a non-empty str or DataFrame that has the column of the
\* datatype 'filepath' or 'filecontents'
IsExtraction(a) ==
    \/ a.op \in {"get_vba", "load_model_data"}
    \/ /\ a.op = "mmb_predict"
       /\ datatype \in {"filepath", "filecontents"}
       /\ sample_input.type \in {"str", "DataFrame"}
       /\ sample_input.rows # <<>>
       /\ sample_input.type = "DataFrame" => datatype \in sample_input.columns

\* text is what the row of a sample of the kind is to hold
IsolatedText(kind, source, text) ==
    IF source = "filepath" /\ kind \in {"unreadable", "missing", "vanishes"}
    THEN Slice06(text) = ErrorPrefix
    ELSE text = parse_vba(contents_of(kind))

\* C11: a batch extraction never raises; it returns a row for every sample,
\* with 'Error:...' as the text of a sample whose file cannot be opened, read
\* or parsed, and with the macro text of every other sample.
C11_FailureIsolation ==
    (answer # None /\ IsExtraction(answer[1])) =>
        /\ answer[1].raised = "no"
        /\ answer[1].returned # None
        /\ DOMAIN answer[1].returned[1] = DOMAIN SamplesOf(answer[1])
        /\ \A i \in DOMAIN SamplesOf(answer[1]) :
              IsolatedText(SamplesOf(answer[1])[i],
                           IF answer[1].op = "mmb_predict" THEN datatype
                           ELSE IF answer[1].op = "load_model_data" THEN "filepath"
                           ELSE datatype,
                           answer[1].returned[1][i])

\* mmb_predict is to reject the input: it is neither a str nor a DataFrame, the
\* datatype is not one of the three, or the DataFrame lacks the column of the
\* datatype
InvalidInput ==
    \/ sample_input.type = "other"
    \/ datatype \notin Datatypes
    \/ sample_input.type = "DataFrame" /\ column_of(datatype) \notin sample_input.columns

\* C14: mmb_predict rejects such an input with an error, before any sample is
\* scanned, extracted or classified, and returns nothing.
C14_InputContract ==
    (answer # None /\ answer[1].op = "mmb_predict" /\ InvalidInput) =>
        /\ answer[1].raised # "no"
        /\ answer[1].scanned = 0
        /\ answer[1].extracted = 0
        /\ answer[1].returned = None

(***************************************************************************)
(* SpecSwap: classify_vba of one thread while another thread rebuilds or   *)
(* loads the model of the same object                                      *)
(*                                                                         *)
(* The object has no lock, so the threads interleave between statements.    *)
(* A field is described by the version of the model whose build assigned    *)
(* it, and whether the estimator it holds has been fitted.                  *)
(***************************************************************************)
MaxVersion == 2

\* The model fields classify_vba reads
ModelFields == {"model_cntvect", "model_tfidf_trans", "cnt_features", "tfidf_features", "cls"}

\* The assignments of get_language_features and build_models, in the order of
\* lines 235, 240, 246, 247, 249, 281 and 283: an estimator is assigned to the
\* field when it is made and fitted afterwards
RebuildSteps ==
    <<[field |-> "model_cntvect", fitted |-> TRUE],
      [field |-> "cnt_features", fitted |-> TRUE],
      [field |-> "model_tfidf_trans", fitted |-> FALSE],
      [field |-> "model_tfidf_trans", fitted |-> TRUE],
      [field |-> "tfidf_features", fitted |-> TRUE],
      [field |-> "cls", fitted |-> FALSE],
      [field |-> "cls", fitted |-> TRUE]>>

\* The assignments of load_model, in the order of lines 418, 425, 431, 432, 281
\* and 283: self.features is replaced as a whole
LoadSteps ==
    <<[field |-> "cnt_features", fitted |-> TRUE],
      [field |-> "tfidf_features", fitted |-> TRUE],
      [field |-> "model_cntvect", fitted |-> TRUE],
      [field |-> "model_tfidf_trans", fitted |-> FALSE],
      [field |-> "model_tfidf_trans", fitted |-> TRUE],
      [field |-> "cls", fitted |-> FALSE],
      [field |-> "cls", fitted |-> TRUE]>>

\* The reads of classify_vba, in the order of lines 645, 646, 649, 652 and 659
ClassifyReads == <<"model_cntvect", "model_tfidf_trans", "tfidf_features", "cnt_features", "cls">>

\* transform and predict of an estimator that is not fitted raise NotFittedError
NeedsFit == {"model_tfidf_trans", "cls"}

IdleSwap ==
    /\ fields = [f \in ModelFields |-> [version |-> 0, fitted |-> TRUE]]
    /\ building = 0
    /\ todo = <<>>
    /\ reading = <<>>
    /\ seen = <<>>
    /\ failed = FALSE

\* An object with a model, no call in progress
InitSwap == IdleSwap

\* mmb_init_model begins to rebuild (get_language_features, build_models) or
\* to load (load_model) the model
StartInit ==
    /\ todo = <<>>
    /\ building < MaxVersion
    /\ building' = building + 1
    /\ todo' \in {RebuildSteps, LoadSteps}
    /\ UNCHANGED <<fields, reading, seen, failed, notSwap>>

\* Its next assignment
Assign ==
    /\ todo # <<>>
    /\ fields' = [fields EXCEPT ![todo[1].field] = [version |-> building, fitted |-> todo[1].fitted]]
    /\ todo' = Tail(todo)
    /\ UNCHANGED <<building, reading, seen, failed, notSwap>>

\* classify_vba(vba) begins
StartClassify ==
    /\ reading = <<>>
    /\ reading' = ClassifyReads
    /\ seen' = <<>>
    /\ failed' = FALSE
    /\ UNCHANGED <<fields, building, todo, notSwap>>

\* Its next read of a field of self
Read ==
    /\ reading # <<>>
    /\ IF reading[1] \in NeedsFit /\ ~fields[reading[1]].fitted
       THEN /\ failed' = TRUE
            /\ reading' = <<>>
            /\ seen' = seen
       ELSE /\ failed' = FALSE
            /\ reading' = Tail(reading)
            /\ seen' = Append(seen, fields[reading[1]].version)
    /\ UNCHANGED <<fields, building, todo, notSwap>>

NextSwap == StartInit \/ Assign \/ StartClassify \/ Read

\* C13: a classify_vba that runs while the model is rebuilt or loaded does not
\* fail on a half-made model, and all the fields it reads are of one version
\* of the model.
C13_NoMixedModel ==
    /\ ~failed
    /\ \A i, j \in DOMAIN seen : seen[i] = seen[j]

(***************************************************************************)
(* The specifications                                                      *)
(***************************************************************************)
FeatStart == InitFeat /\ IdleTop /\ IdlePred /\ IdleStore /\ IdleInput /\ IdleSwap

SpecFeat == FeatStart /\ [][NextFeat]_vars

TopStart == InitTop /\ IdleFeat /\ IdlePred /\ IdleStore /\ IdleInput /\ IdleSwap

SpecTop == TopStart /\ [][NextTop]_vars

PredStart == InitPred /\ IdleFeat /\ IdleTop /\ IdleStore /\ IdleInput /\ IdleSwap

SpecPred == PredStart /\ [][NextPred]_vars

DataStart == InitData /\ IdleFeat /\ IdleTop /\ IdlePred /\ IdleInput /\ IdleSwap

SpecData == DataStart /\ [][NextData]_vars

SpecExclude == DataStart /\ [][NextExclude]_vars

StoreStart == InitStore /\ IdleFeat /\ IdleTop /\ IdlePred /\ IdleInput /\ IdleSwap

SpecStore == StoreStart /\ [][NextStore]_vars

InputStart == InitInput /\ IdleFeat /\ IdleTop /\ IdlePred /\ IdleStore /\ IdleSwap

SpecInput == InputStart /\ [][NextInput]_vars

SwapStart == InitSwap /\ IdleFeat /\ IdleTop /\ IdlePred /\ IdleStore /\ IdleInput

SpecSwap == SwapStart /\ [][NextSwap]_vars

====
